---- MODULE Spec2Model ----
(***************************************************************************)
(* Model of aus_senate_audit/senate_election.py: the SenateElection base   *)
(* class.  The state is the object's fields; every method is one action.   *)
(* Five bookkeeping variables record what a caller observes: the sequence  *)
(* of add_ballot calls made so far (calls), the last method called (op),   *)
(* its arguments (arg), the value it returned (ret) and whether it raised  *)
(* (err).                                                                  *)
(***************************************************************************)
EXTENDS Integers, Sequences, FiniteSets, TLC

\* ---- bounds ----
NumBallotTypes == 2
MaxWeight == 2
MaxCalls == 3

\* Ballot types are opaque hashable values; the class never looks inside.
BallotTypes == 1..NumBallotTypes
\* add_ballot performs no validation, so a caller can pass any integer.
Weights == (-1)..MaxWeight

\* Python values with no integer/collection counterpart.
None == "None"
NoValue == "<no value>"
OK == "ok"
NotImplementedError == "NotImplementedError"

VARIABLES n, m, seats, ballots_drawn, ballots, ballot_weights,
          candidates, candidate_ids, election_id, type,
          calls, op, arg, ret, err

meta == <<n, m, seats, candidates, candidate_ids, election_id, type>>
sampled == <<ballots_drawn, ballots, ballot_weights>>
fields == <<n, m, seats, ballots_drawn, ballots, ballot_weights,
            candidates, candidate_ids, election_id, type>>
vars == <<n, m, seats, ballots_drawn, ballots, ballot_weights,
          candidates, candidate_ids, election_id, type,
          calls, op, arg, ret, err>>

\* ---- collections.Counter, as the class uses it ----
\* A Counter is a function whose DOMAIN is its key set.
Counter == [b \in {} |-> 0]

\* c[k]: Counter.__missing__ yields 0 and does not insert the key.
Counter_getitem(c, k) == IF k \in DOMAIN c THEN c[k] ELSE 0

\* Variant: the store overwrites the entry instead of accumulating into it.
Counter_iadd_reset(c, k, w) ==
    [x \in (DOMAIN c) \cup {k} |-> IF x = k THEN w ELSE c[x]]

\* c[k] = c[k] + w : a plain dict store, which keeps zero and negative
\* entries.
Counter_iadd(c, k, w) ==
    [x \in (DOMAIN c) \cup {k} |->
        IF x = k THEN Counter_getitem(c, k) + w ELSE c[x]]

\* class attribute TYPE
TYPE == None

\* ---- __init__ ----
Init ==
    /\ n = 0
    /\ m = 0
    /\ seats = 0
    /\ ballots_drawn = 0
    /\ ballots = {}
    /\ ballot_weights = Counter
    /\ candidates = <<>>
    /\ candidate_ids = <<>>
    /\ election_id = None
    /\ type = TYPE
    /\ calls = <<>>
    /\ op = "__init__"
    /\ arg = <<>>
    /\ ret = None
    /\ err = OK

\* A call that returns value v and changes nothing.
Returns(name, args, v) ==
    /\ op' = name
    /\ arg' = args
    /\ ret' = v
    /\ err' = OK
    /\ UNCHANGED calls

\* ---- getters ----
get_num_cast_ballots ==
    /\ Returns("get_num_cast_ballots", <<>>, n)
    /\ UNCHANGED fields

get_num_seats ==
    /\ Returns("get_num_seats", <<>>, seats)
    /\ UNCHANGED fields

get_num_ballots_drawn ==
    /\ Returns("get_num_ballots_drawn", <<>>, ballots_drawn)
    /\ UNCHANGED fields

get_ballots ==
    /\ Returns("get_ballots", <<>>, ballots)
    /\ UNCHANGED fields

\* Variant: the mapping behaves like a defaultdict, whose lookup inserts the
\* missing key.
get_weight_of_ballot_defaultdict(ballot) ==
    /\ Returns("get_weight_of_ballot", <<ballot>>,
               Counter_getitem(ballot_weights, ballot))
    /\ ballot_weights' = Counter_iadd(ballot_weights, ballot, 0)
    /\ UNCHANGED <<meta, ballots_drawn, ballots>>

get_weight_of_ballot(ballot) ==
    /\ Returns("get_weight_of_ballot", <<ballot>>,
               Counter_getitem(ballot_weights, ballot))
    /\ UNCHANGED fields

get_candidates ==
    /\ Returns("get_candidates", <<>>, candidates)
    /\ UNCHANGED fields

get_candidate_ids ==
    /\ Returns("get_candidate_ids", <<>>, candidate_ids)
    /\ UNCHANGED fields

get_election_id ==
    /\ Returns("get_election_id", <<>>, election_id)
    /\ UNCHANGED fields

get_type ==
    /\ Returns("get_type", <<>>, type)
    /\ UNCHANGED fields

\* ---- the mutator ----
\* Variant: the drawn total counts calls instead of weight.
add_ballot_count(ballot, weight) ==
    /\ Len(calls) < MaxCalls
    /\ ballots' = ballots \cup {ballot}
    /\ ballot_weights' = Counter_iadd(ballot_weights, ballot, weight)
    /\ ballots_drawn' = ballots_drawn + 1
    /\ UNCHANGED meta
    /\ calls' = Append(calls, <<ballot, weight>>)
    /\ op' = "add_ballot"
    /\ arg' = <<ballot, weight>>
    /\ ret' = None
    /\ err' = OK

\* Variant: the ballot type is not recorded in the set of types.
add_ballot_no_set(ballot, weight) ==
    /\ Len(calls) < MaxCalls
    /\ ballots' = ballots
    /\ ballot_weights' = Counter_iadd(ballot_weights, ballot, weight)
    /\ ballots_drawn' = ballots_drawn + weight
    /\ UNCHANGED meta
    /\ calls' = Append(calls, <<ballot, weight>>)
    /\ op' = "add_ballot"
    /\ arg' = <<ballot, weight>>
    /\ ret' = None
    /\ err' = OK

\* Variant: the weight is also added to the number of cast ballots.
add_ballot_cast(ballot, weight) ==
    /\ Len(calls) < MaxCalls
    /\ ballots' = ballots \cup {ballot}
    /\ ballot_weights' = Counter_iadd(ballot_weights, ballot, weight)
    /\ ballots_drawn' = ballots_drawn + weight
    /\ n' = n + weight
    /\ UNCHANGED <<m, seats, candidates, candidate_ids, election_id, type>>
    /\ calls' = Append(calls, <<ballot, weight>>)
    /\ op' = "add_ballot"
    /\ arg' = <<ballot, weight>>
    /\ ret' = None
    /\ err' = OK

add_ballot(ballot, weight) ==
    /\ Len(calls) < MaxCalls
    /\ ballots' = ballots \cup {ballot}
    /\ ballot_weights' = Counter_iadd(ballot_weights, ballot, weight)
    /\ ballots_drawn' = ballots_drawn + weight
    /\ UNCHANGED meta
    /\ calls' = Append(calls, <<ballot, weight>>)
    /\ op' = "add_ballot"
    /\ arg' = <<ballot, weight>>
    /\ ret' = None
    /\ err' = OK

\* ---- the abstract methods ----
Raises(name, args, exc) ==
    /\ op' = name
    /\ arg' = args
    /\ ret' = NoValue
    /\ err' = exc
    /\ UNCHANGED calls

\* Variant: the method body is empty and the call returns None.
draw_ballots_pass ==
    /\ Returns("draw_ballots", <<>>, None)
    /\ UNCHANGED fields

draw_ballots ==
    /\ Raises("draw_ballots", <<>>, NotImplementedError)
    /\ UNCHANGED fields

get_outcome(bw) ==
    /\ Raises("get_outcome", <<bw>>, NotImplementedError)
    /\ UNCHANGED fields

\* Weight distributions a caller may hand to get_outcome: the empty one, the
\* accumulated one, and a uniform hypothetical one.
OutcomeInputs == {Counter, ballot_weights, [b \in BallotTypes |-> 1]}

Next ==
    \/ get_num_cast_ballots
    \/ get_num_seats
    \/ get_num_ballots_drawn
    \/ get_ballots
    \/ \E ballot \in BallotTypes : get_weight_of_ballot(ballot)
    \/ get_candidates
    \/ get_candidate_ids
    \/ get_election_id
    \/ get_type
    \/ \E ballot \in BallotTypes, weight \in Weights : add_ballot(ballot, weight)
    \/ draw_ballots
    \/ \E bw \in OutcomeInputs : get_outcome(bw)

Spec == Init /\ [][Next]_vars

TypeOK ==
    /\ ballots \subseteq BallotTypes
    /\ DOMAIN ballot_weights \subseteq BallotTypes
    /\ ballots_drawn \in Int
    /\ Len(calls) <= MaxCalls

\* ======================= properties =======================
Getters == {"get_num_cast_ballots", "get_num_seats", "get_num_ballots_drawn",
            "get_ballots", "get_weight_of_ballot", "get_candidates",
            "get_candidate_ids", "get_election_id", "get_type"}

\* Every add_ballot call made so far had a positive weight.
AllPositive(cs) == \A i \in 1..Len(cs) : cs[i][2] > 0

\* Sum of the weights of the calls in cs.
SumOfCalls(cs) ==
    LET total[i \in 0..Len(cs)] ==
            IF i = 0 THEN 0 ELSE total[i - 1] + cs[i][2]
    IN  total[Len(cs)]

\* Sum of the weights of exactly those calls in cs whose ballot is b.
SumOfCallsFor(cs, b) ==
    LET total[i \in 0..Len(cs)] ==
            IF i = 0 THEN 0
            ELSE total[i - 1] + (IF cs[i][1] = b THEN cs[i][2] ELSE 0)
    IN  total[Len(cs)]

\* The distinct ballot arguments passed to add_ballot so far.
BallotsAdded(cs) == {cs[i][1] : i \in 1..Len(cs)}

\* Sum of the values stored in a Counter.
RECURSIVE SumValues(_)
SumValues(c) ==
    IF DOMAIN c = {} THEN 0
    ELSE LET k == CHOOSE x \in DOMAIN c : TRUE
         IN  c[k] + SumValues([x \in (DOMAIN c) \ {k} |-> c[x]])

\* C1: after any sequence of add_ballot calls with positive weights (the
\* empty sequence included), get_num_ballots_drawn() is the sum of all the
\* weights and get_weight_of_ballot(b) is the sum of the weights of exactly
\* the calls whose ballot is b, whatever the order of the calls.
C1_Accumulation ==
    AllPositive(calls) =>
        /\ ballots_drawn = SumOfCalls(calls)
        /\ \A b \in BallotTypes :
              Counter_getitem(ballot_weights, b) = SumOfCallsFor(calls, b)
        /\ (op = "get_num_ballots_drawn" => ret = SumOfCalls(calls))
        /\ (op = "get_weight_of_ballot" =>
              ret = SumOfCallsFor(calls, arg[1]))

C1_Witness ==
    /\ Len(calls) = 3
    /\ AllPositive(calls)
    /\ calls[1][1] = calls[3][1]
    /\ calls[1][1] # calls[2][1]
    /\ calls[1][2] # calls[3][2]
    /\ op = "get_num_ballots_drawn"
    /\ ret = SumOfCalls(calls)

\* C2: in every reachable state the running total _ballots_drawn equals the
\* sum of all values stored in _ballot_weights.
C2_TotalIsSumOfWeights == ballots_drawn = SumValues(ballot_weights)

C2_Witness ==
    /\ Len(calls) = 3
    /\ Cardinality(DOMAIN ballot_weights) = 2
    /\ ballots_drawn = SumValues(ballot_weights)
    /\ ballots_drawn > 2

\* C3: in every reachable state the set returned by get_ballots(), the key
\* set of _ballot_weights and the set of distinct ballots passed to
\* add_ballot so far are equal, also after get_weight_of_ballot was called
\* on a type never added.
C3_BallotSetsAgree ==
    /\ ballots = DOMAIN ballot_weights
    /\ ballots = BallotsAdded(calls)
    /\ (op = "get_ballots" => ret = BallotsAdded(calls))

C3_Witness ==
    /\ op = "get_weight_of_ballot"
    /\ arg[1] \notin BallotsAdded(calls)
    /\ calls # <<>>
    /\ ballots = DOMAIN ballot_weights

\* C4: get_weight_of_ballot(b) for a type b never passed to add_ballot
\* returns 0 without raising and leaves the whole state unchanged: b enters
\* neither the sampled types nor the weight mapping.
C4_UnknownBallotIsZero ==
    [][(op' = "get_weight_of_ballot" /\ arg'[1] \notin BallotsAdded(calls)) =>
          /\ ret' = 0
          /\ err' = OK
          /\ UNCHANGED fields
          /\ arg'[1] \notin ballots'
          /\ arg'[1] \notin DOMAIN ballot_weights']_vars

C4_Witness ==
    /\ op = "get_weight_of_ballot"
    /\ arg[1] \notin BallotsAdded(calls)
    /\ arg[1] \notin DOMAIN ballot_weights
    /\ ret = 0
    /\ err = OK
    /\ ballots_drawn > 0

\* C5: on the base class, draw_ballots() and get_outcome(ballot_weights)
\* always end in NotImplementedError, return no value and leave every field
\* unchanged.
C5_AbstractMethodsRaise ==
    [][op' \in {"draw_ballots", "get_outcome"} =>
          /\ err' = NotImplementedError
          /\ ret' = NoValue
          /\ UNCHANGED fields]_vars

C5_Witness ==
    /\ op = "get_outcome"
    /\ arg[1] = ballot_weights
    /\ ballot_weights # Counter
    /\ err = NotImplementedError
    /\ ret = NoValue

\* C6: as long as every add_ballot call had a positive weight, every sampled
\* ballot type has a strictly positive weight, and a further add_ballot on a
\* type already present raises its weight by exactly the given weight.
C6_PositiveWeights ==
    /\ [](AllPositive(calls) =>
            \A b \in ballots : Counter_getitem(ballot_weights, b) > 0)
    /\ [][(op' = "add_ballot" /\ calls' # calls /\ AllPositive(calls')
           /\ arg'[1] \in ballots) =>
             /\ Counter_getitem(ballot_weights', arg'[1])
                  = Counter_getitem(ballot_weights, arg'[1]) + arg'[2]
             /\ Counter_getitem(ballot_weights', arg'[1])
                  > Counter_getitem(ballot_weights, arg'[1])]_vars

C6_Witness ==
    /\ op = "add_ballot"
    /\ Len(calls) >= 2
    /\ AllPositive(calls)
    /\ arg[1] \in BallotsAdded(SubSeq(calls, 1, Len(calls) - 1))
    /\ Counter_getitem(ballot_weights, arg[1]) > arg[2]

\* C7: the drawn total never decreases across any step, and the object
\* never goes from a sampled state back to the empty state.
C7_DrawnTotalMonotone ==
    [][/\ ballots_drawn' >= ballots_drawn
       /\ (ballots_drawn > 0 /\ ballots # {}) =>
             ~(ballots_drawn' = 0 /\ ballots' = {})]_vars

\* C8: add_ballot with a zero or negative weight is rejected with an error
\* and leaves the drawn total, the sampled types and the weights unchanged.
C8_NonPositiveWeightRejected ==
    [][(op' = "add_ballot" /\ calls' # calls /\ arg'[2] <= 0) =>
          /\ err' # OK
          /\ UNCHANGED sampled]_vars

\* C9: add_ballot is the only operation that changes a field: every getter
\* leaves all fields unchanged, and the same getter called again with no
\* add_ballot in between returns the same result.
C9_GettersArePure ==
    [][/\ op' \in Getters => UNCHANGED fields
       /\ fields' # fields => op' = "add_ballot"
       /\ (op \in Getters /\ op' = op /\ arg' = arg) =>
             (ret' = ret /\ err' = err)]_vars

C9_Witness ==
    /\ op = "get_weight_of_ballot"
    /\ arg[1] \notin ballots
    /\ ballots # {}
    /\ Len(calls) = MaxCalls

\* C10: add_ballot(ballot, weight) changes only the drawn total, the sampled
\* set and the weight entry of the given ballot; the other types' entries
\* and the election metadata stay as they were, so the roster lengths agree
\* and seats <= total candidates in every reachable state.
C10_AddBallotFrame ==
    /\ [](seats <= m /\ Len(candidates) = Len(candidate_ids))
    /\ [][(op' = "add_ballot" /\ calls' # calls) =>
             /\ UNCHANGED meta
             /\ \A b \in BallotTypes \ {arg'[1]} :
                   /\ (b \in ballots') <=> (b \in ballots)
                   /\ (b \in DOMAIN ballot_weights')
                        <=> (b \in DOMAIN ballot_weights)
                   /\ Counter_getitem(ballot_weights', b)
                        = Counter_getitem(ballot_weights, b)]_vars

C10_Witness ==
    /\ op = "add_ballot"
    /\ Len(calls) >= 2
    /\ \E b \in ballots : b # arg[1] /\ Counter_getitem(ballot_weights, b) # 0
    /\ n = 0
====
